---- MODULE Spec2Model ----
(***************************************************************************)
(* Model of the GitHub repositories inventory plugin                       *)
(* (plugins/inventory/github_repositories_inventory.py): the cache         *)
(* handling of InventoryModule.parse, get_repositories, parse_groupnames   *)
(* and populate, run against a persistent cache store and an inventory.    *)
(*                                                                         *)
(* A Python str is a sequence of one-character strings, so that indexing,  *)
(* iteration, startswith, replace and lower act on characters as they do   *)
(* in the code.                                                            *)
(***************************************************************************)
EXTENDS Integers, Sequences, FiniteSets, TLC

\* Longest repository sequence the search API returns in one run.
MaxRepos == 2

-----------------------------------------------------------------------------
\* String literals of the source and of the modelled inputs.

S_unassigned == <<"u","n","a","s","s","i","g","n","e","d">>
S_team_prefix == <<"t","e","a","m","-">>
S_main_prefix == <<"m","a","i","n","-">>
S_localhost == <<"l","o","c","a","l","h","o","s","t">>
S_local == <<"l","o","c","a","l">>

S_team_platform == <<"t","e","a","m","-","p","l","a","t","f","o","r","m">>
S_team_a == <<"t","e","a","m","-","a">>
S_ci == <<"c","i">>
S_svc_42_deploy == <<"s","v","c","-","4","2","-","d","e","p","l","o","y">>
S_svc_7_svc_8 == <<"s","v","c","-","7","-","s","v","c","-","8">>
S_api == <<"a","p","i">>
S_svc == <<"s","v","c">>
S_Go == <<"G","o">>
S_Shell == <<"S","h","e","l","l">>
S_C_Sharp == <<"C"," ","S","h","a","r","p">>
S_Cpp == <<"C","+","+">>

UpperChars == <<"A","B","C","D","E","F","G","H","I","J","K","L","M",
                "N","O","P","Q","R","S","T","U","V","W","X","Y","Z">>
LowerChars == <<"a","b","c","d","e","f","g","h","i","j","k","l","m",
                "n","o","p","q","r","s","t","u","v","w","x","y","z">>
DigitChars == {"0","1","2","3","4","5","6","7","8","9"}
WordChars == {UpperChars[i] : i \in 1..26} \cup {LowerChars[i] : i \in 1..26}
             \cup DigitChars \cup {"_"}

\* str.startswith(prefix)
StartsWith(s, prefix) ==
    /\ Len(s) >= Len(prefix)
    /\ SubSeq(s, 1, Len(prefix)) = prefix

\* str.replace(old, new) for a one-character old and new
ReplaceChar(s, old, new) ==
    [i \in 1..Len(s) |-> IF s[i] = old THEN new ELSE s[i]]

\* str.replace(" ", "")
RemoveSpaces(s) == SelectSeq(s, LAMBDA c : c # " ")

LowerChar(c) ==
    IF \E i \in 1..26 : UpperChars[i] = c
    THEN LowerChars[CHOOSE i \in 1..26 : UpperChars[i] = c]
    ELSE c

\* str.lower()
Lower(s) == [i \in 1..Len(s) |-> LowerChar(s[i])]

\* to_safe_group_name(name, force=True, silent=True): every character that
\* is not a word character, and a leading digit, becomes "_"
to_safe_group_name(s) ==
    [i \in 1..Len(s) |->
        IF s[i] \notin WordChars \/ (i = 1 /\ s[i] \in DigitChars)
        THEN "_" ELSE s[i]]

-----------------------------------------------------------------------------
\* re.findall on the patterns the model configures.

P_two == "(svc)-(\\d+)"
P_one == "(svc)"
P_nogroup == "svc-\\d+"
P_bad == "("

Lit(cap, text) == [cap |-> cap, kind |-> "lit", text |-> text]
Digits(cap) == [cap |-> cap, kind |-> "digits", text |-> <<>>]

\* re.compile: the items of a pattern, or invalid (re.error)
Compile(regex) ==
    CASE regex = P_two -> [valid |-> TRUE,
                           items |-> <<Lit(TRUE, S_svc), Lit(FALSE, <<"-">>), Digits(TRUE)>>]
      [] regex = P_one -> [valid |-> TRUE, items |-> <<Lit(TRUE, S_svc)>>]
      [] regex = P_nogroup -> [valid |-> TRUE,
                               items |-> <<Lit(FALSE, S_svc), Lit(FALSE, <<"-">>), Digits(FALSE)>>]
      [] OTHER -> [valid |-> FALSE, items |-> <<>>]

NumGroups(items) == Cardinality({k \in 1..Len(items) : items[k].cap})

HasPrefixAt(s, pos, text) ==
    /\ pos + Len(text) - 1 <= Len(s)
    /\ SubSeq(s, pos, pos + Len(text) - 1) = text

RECURSIVE DigitRun(_, _)
\* length of the longest run of digits of s starting at pos (greedy \d+)
DigitRun(s, pos) ==
    IF pos <= Len(s) /\ s[pos] \in DigitChars
    THEN 1 + DigitRun(s, pos + 1)
    ELSE 0

RECURSIVE MatchItems(_, _, _, _, _)
\* match items[k..] of the pattern against s at pos
MatchItems(items, k, s, pos, caps) ==
    IF k > Len(items)
    THEN [ok |-> TRUE, end |-> pos, caps |-> caps]
    ELSE LET it == items[k]
             n == IF it.kind = "lit"
                  THEN (IF HasPrefixAt(s, pos, it.text) THEN Len(it.text) ELSE -1)
                  ELSE (IF DigitRun(s, pos) >= 1 THEN DigitRun(s, pos) ELSE -1)
         IN IF n < 0
            THEN [ok |-> FALSE, end |-> pos, caps |-> <<>>]
            ELSE MatchItems(items, k + 1, s, pos + n,
                            IF it.cap THEN Append(caps, SubSeq(s, pos, pos + n - 1))
                            ELSE caps)

RECURSIVE Scan(_, _, _, _)
\* all non-overlapping matches of the pattern in s, left to right
Scan(items, s, pos, acc) ==
    IF pos > Len(s)
    THEN acc
    ELSE LET m == MatchItems(items, 1, s, pos, <<>>)
         IN IF m.ok
            THEN Scan(items, s, IF m.end > pos THEN m.end ELSE pos + 1,
                      Append(acc, [whole |-> SubSeq(s, pos, m.end - 1), caps |-> m.caps]))
            ELSE Scan(items, s, pos + 1, acc)

PyStr(s) == [t |-> "str", s |-> s, items |-> <<>>]
PyTuple(xs) == [t |-> "tuple", s |-> <<>>, items |-> xs]

\* re.findall(regex, s): a list of strings when the pattern has at most one
\* group (the whole match with no group, the capture with one), a list of
\* tuples of captures when it has several
findall(regex, s) ==
    LET items == Compile(regex).items
        raw == Scan(items, s, 1, <<>>)
        n == NumGroups(items)
    IN [i \in 1..Len(raw) |->
            IF n = 0 THEN PyStr(raw[i].whole)
            ELSE IF n = 1 THEN PyStr(raw[i].caps[1])
            ELSE PyTuple(raw[i].caps)]

\* x[0] of a str (its first character) or of a tuple (its first element)
CanIndex0(x) == IF x.t = "str" THEN Len(x.s) > 0 ELSE Len(x.items) > 0
Index0(x) == IF x.t = "str" THEN <<x.s[1]>> ELSE x.items[1]

\* the elements list.extend(x) appends: the characters of a str, the
\* elements of a tuple
Elements(x) ==
    IF x.t = "str" THEN [i \in 1..Len(x.s) |-> <<x.s[i]>>] ELSE x.items

RECURSIVE ExtendAll(_, _, _)
ExtendAll(result, matches, i) ==
    IF i > Len(matches)
    THEN result
    ELSE ExtendAll(result \o Elements(matches[i]), matches, i + 1)

PyFalse == [t |-> "False", v |-> <<>>]
PyList(v) == [t |-> "list", v |-> v]

parse_groupnames(repository, regex_filter) ==
    IF "name" \notin DOMAIN repository \/ ~Compile(regex_filter).valid
    THEN PyFalse
    ELSE LET matches == findall(regex_filter, repository.name)
         IN IF Len(matches) = 0
            THEN PyFalse
            ELSE IF ~CanIndex0(matches[1])
            THEN PyFalse
            ELSE PyList(ExtendAll(<<S_main_prefix \o Index0(matches[1])>>, matches, 1))

-----------------------------------------------------------------------------
\* The inventory the plugin fills (self.inventory).

FreshInventory ==
    [groups |-> {}, hosts |-> {}, members |-> <<>>, vars |-> <<>>]

\* inventory.add_group(name): creates the group unless it exists
add_group(inv, g) ==
    IF g \in inv.groups
    THEN inv
    ELSE [inv EXCEPT !.groups = @ \cup {g},
                     !.members = [x \in inv.groups \cup {g} |->
                                     IF x = g THEN <<>> ELSE inv.members[x]]]

\* group.add_host: the host list of a group after adding host h
add_host_to_group_dup(hostlist, h) == Append(hostlist, h)

add_host_to_group(hostlist, h) ==
    IF \E i \in 1..Len(hostlist) : hostlist[i] = h
    THEN hostlist
    ELSE Append(hostlist, h)

\* inventory.add_host(name, group): creates the host unless it exists, then
\* puts it into the group unless it is already there
add_host(inv, h, g) ==
    [inv EXCEPT !.hosts = @ \cup {h},
                !.vars = [x \in inv.hosts \cup {h} |->
                             IF x \in inv.hosts THEN inv.vars[x] ELSE <<>>],
                !.members = [x \in inv.groups |->
                                IF x = g THEN add_host_to_group(inv.members[x], h)
                                ELSE inv.members[x]]]

\* inventory.set_variable(host, key, value) for every key of newvars
set_variables(inv, h, newvars) ==
    [inv EXCEPT !.vars[h] =
        [k \in DOMAIN inv.vars[h] \cup DOMAIN newvars |->
            IF k \in DOMAIN newvars THEN newvars[k] ELSE inv.vars[h][k]]]

-----------------------------------------------------------------------------
\* populate: the body of the loop for one project.

TeamIdx(topics) == {i \in 1..Len(topics) : StartsWith(topics[i], S_team_prefix)}
HasTeam(topics) == TeamIdx(topics) # {}
\* next((topic for topic in topics if topic.startswith("team-")), None)
Team(topics) == topics[CHOOSE i \in TeamIdx(topics) : \A j \in TeamIdx(topics) : i <= j]

InList(x, list) == \E i \in 1..Len(list) : list[i] = x

\* the branch taken when regex_filter is empty
NoRegexFallback_skip(groupnames) == groupnames

NoRegexFallback(groupnames) ==
    IF ~InList(S_unassigned, groupnames)
    THEN Append(groupnames, S_unassigned)
    ELSE groupnames

Groupnames(project, regex_filter) ==
    LET first == IF HasTeam(project.topics)
                 THEN <<Team(project.topics)>>
                 ELSE <<S_unassigned>>
    IN IF regex_filter # ""
       THEN LET regex_groups == parse_groupnames(project, regex_filter)
            IN IF regex_groups.t = "list" /\ Len(regex_groups.v) > 0
               THEN first \o regex_groups.v
               ELSE first
       ELSE NoRegexFallback(first)

\* the group name handed to add_group for a language key
LanguageGroup(key) == to_safe_group_name(RemoveSpaces(Lower(key)))
\* the group name handed to add_group for an entry of groupnames
SinkGroup(groupentry) == ReplaceChar(groupentry, "-", "_")

\* the host populate creates for a project
HostKey(project) == project.name

RECURSIVE AddToGroups(_, _, _, _)
\* add_group then add_host for names[i..]
AddToGroups(inv, names, h, i) ==
    IF i > Len(names)
    THEN inv
    ELSE AddToGroups(add_host(add_group(inv, names[i]), h, names[i]), names, h, i + 1)

\* the project raises before any inventory call: project['topics'] or
\* project['name'] is missing, or group_by_languages is set and
\* project['languages'] is missing or None
ProjectRaises(project, group_by_languages) ==
    \/ "topics" \notin DOMAIN project
    \/ "name" \notin DOMAIN project
    \/ /\ group_by_languages
       /\ \/ "languages" \notin DOMAIN project
          \/ project.languages.t # "map"

LanguageGroups(project, group_by_languages) ==
    IF group_by_languages
    THEN [i \in 1..Len(project.languages.items) |->
              LanguageGroup(project.languages.items[i][1])]
    ELSE <<>>

RuleGroups(project, regex_filter) ==
    LET groupnames == Groupnames(project, regex_filter)
    IN [i \in 1..Len(groupnames) |-> SinkGroup(groupnames[i])]

HostVars(project) ==
    LET base == [k \in DOMAIN project \cup {"ansible_host", "ansible_connection"} |->
                    IF k = "ansible_host" THEN S_localhost
                    ELSE IF k = "ansible_connection" THEN S_local
                    ELSE project[k]]
    IN IF HasTeam(project.topics)
       THEN [k \in DOMAIN base \cup {"team"} |->
                IF k = "team" THEN Team(project.topics) ELSE base[k]]
       ELSE base

\* one iteration of the loop of populate that does not raise
PopulateProject(inv, project, regex_filter, group_by_languages) ==
    LET h == HostKey(project)
        inv1 == AddToGroups(inv, LanguageGroups(project, group_by_languages), h, 1)
        inv2 == AddToGroups(inv1, RuleGroups(project, regex_filter), h, 1)
    IN set_variables(inv2, h, HostVars(project))

\* the groups that iteration adds the host to
GroupsAdded(project, regex_filter, group_by_languages) ==
    LET l == LanguageGroups(project, group_by_languages)
        r == RuleGroups(project, regex_filter)
    IN {l[i] : i \in 1..Len(l)} \cup {r[i] : i \in 1..Len(r)}

-----------------------------------------------------------------------------
\* The repositories the search API can return, and get_repositories.

NoLanguages == [t |-> "none", items |-> <<>>]
LanguageMap(items) == [t |-> "map", items |-> items]

\* repository._rawData of the repositories of the organisation
RawRepos ==
    { [id |-> 1, name |-> S_svc_42_deploy, topics |-> <<S_ci, S_team_platform>>],
      [id |-> 2, name |-> S_svc_42_deploy, topics |-> <<>>],
      [id |-> 3, name |-> S_api],
      [id |-> 4, name |-> S_svc_7_svc_8, topics |-> <<S_team_a>>] }

\* repository.get_languages()
get_languages(raw) ==
    CASE raw.id = 1 -> LanguageMap(<< <<S_Go, 500>>, <<S_Shell, 10>> >>)
      [] raw.id = 2 -> LanguageMap(<< <<S_C_Sharp, 7>> >>)
      [] raw.id = 3 -> LanguageMap(<< >>)
      [] OTHER -> LanguageMap(<< <<S_Cpp, 3>> >>)

\* the sequences of distinct repositories a search can yield
SearchResults ==
    UNION { {r \in [1..n -> RawRepos] : \A i, j \in 1..n : i # j => r[i].id # r[j].id}
            : n \in 0..MaxRepos }

SearchOutcomes == {"ok", "search_raises", "iteration_raises"}

PyNone == [t |-> "None", v |-> <<>>]
Unassigned == [t |-> "unassigned", v |-> <<>>]
Missing == [t |-> "missing", v |-> <<>>]

\* repo_raw_data with repo_raw_data['languages'] set
WithLanguages(raw, group_by_languages) ==
    [k \in DOMAIN raw \cup {"languages"} |->
        IF k = "languages"
        THEN (IF group_by_languages THEN get_languages(raw) ELSE NoLanguages)
        ELSE raw[k]]

\* the value get_repositories returns: None when the search or the
\* iteration raises, the list of records otherwise
get_repositories(outcome, r, group_by_languages) ==
    IF outcome # "ok"
    THEN PyNone
    ELSE PyList([i \in 1..Len(r) |-> WithLanguages(r[i], group_by_languages)])

\* not results
NotResults(results) == results.t # "list" \/ Len(results.v) = 0

-----------------------------------------------------------------------------
\* parse

RegexFilters == {"", P_two, P_one, P_nogroup, P_bad}

AttemptToReadCache(user_cache_setting, cache) == user_cache_setting /\ cache

CacheNeedsUpdate_always(user_cache_setting, cache) == ~cache

CacheNeedsUpdate(user_cache_setting, cache) == user_cache_setting /\ ~cache

\* whether the fetch condition gets as far as evaluating "not results"
EvaluatesNotResults_eager(attempt, needs_update) == TRUE

EvaluatesNotResults(attempt, needs_update) == ~(~attempt \/ needs_update)

VARIABLES
    pc,                     \* position of the run inside parse
    user_cache_setting,     \* self.get_option('cache')
    cache,                  \* the cache argument of parse
    regex_filter,           \* self.regex_filter
    group_by_languages,     \* self.group_by_languages
    attempt_to_read_cache,
    cache_needs_update,
    results,                \* the local variable results
    store,                  \* self._cache[cache_key]
    inventory,              \* self.inventory
    idx,                    \* position of the loop of populate
    pass,                   \* 1 in the call of populate by parse, 2 in a repeated call
    fetchCalls,             \* calls of get_repositories in this run
    fetchFailed,            \* get_repositories failed in this run
    storeReads,             \* reads of self._cache in this run
    storeWrites,            \* writes of self._cache in this run
    storeAtStart,           \* the store when the run began
    readUnassigned,         \* results was read before it was assigned
    groupsOf,               \* per processed project, the groups its host was added to
    errorAt,                \* position of the project that raised, 0 if none
    sinkOnce                \* the inventory after the first call of populate

vars == <<pc, user_cache_setting, cache, regex_filter, group_by_languages,
          attempt_to_read_cache, cache_needs_update, results, store, inventory,
          idx, pass, fetchCalls, fetchFailed, storeReads, storeWrites,
          storeAtStart, readUnassigned, groupsOf, errorAt, sinkOnce>>

config == <<user_cache_setting, cache, regex_filter, group_by_languages>>
ghosts == <<fetchCalls, fetchFailed, storeReads, storeWrites, storeAtStart,
            readUnassigned>>
loop == <<idx, pass, groupsOf, errorAt, sinkOnce>>

Init ==
    /\ pc = "idle"
    /\ user_cache_setting = FALSE
    /\ cache = TRUE
    /\ regex_filter = ""
    /\ group_by_languages = FALSE
    /\ attempt_to_read_cache = FALSE
    /\ cache_needs_update = FALSE
    /\ results = Unassigned
    /\ store = Missing
    /\ inventory = FreshInventory
    /\ idx = 1
    /\ pass = 1
    /\ fetchCalls = 0
    /\ fetchFailed = FALSE
    /\ storeReads = 0
    /\ storeWrites = 0
    /\ storeAtStart = Missing
    /\ readUnassigned = FALSE
    /\ groupsOf = <<>>
    /\ errorAt = 0
    /\ sinkOnce = FreshInventory

\* parse is entered with a fresh inventory; the options are read and the two
\* cache flags computed
ParseStart ==
    /\ pc \in {"idle", "done"}
    /\ \E u \in BOOLEAN, c \in BOOLEAN, rf \in RegexFilters, g \in BOOLEAN :
        /\ user_cache_setting' = u
        /\ cache' = c
        /\ regex_filter' = rf
        /\ group_by_languages' = g
        /\ attempt_to_read_cache' = AttemptToReadCache(u, c)
        /\ cache_needs_update' = CacheNeedsUpdate(u, c)
    /\ results' = Unassigned
    /\ inventory' = FreshInventory
    /\ idx' = 1
    /\ pass' = 1
    /\ fetchCalls' = 0
    /\ fetchFailed' = FALSE
    /\ storeReads' = 0
    /\ storeWrites' = 0
    /\ storeAtStart' = store
    /\ readUnassigned' = FALSE
    /\ groupsOf' = <<>>
    /\ errorAt' = 0
    /\ sinkOnce' = FreshInventory
    /\ pc' = "read_cache"
    /\ UNCHANGED store

\* if attempt_to_read_cache: results = self._cache[cache_key], KeyError
\* sets cache_needs_update
ReadCache ==
    /\ pc = "read_cache"
    /\ IF attempt_to_read_cache
       THEN /\ storeReads' = storeReads + 1
            /\ IF store.t # "missing"
               THEN /\ results' = store
                    /\ UNCHANGED cache_needs_update
               ELSE /\ cache_needs_update' = TRUE
                    /\ UNCHANGED results
       ELSE UNCHANGED <<storeReads, results, cache_needs_update>>
    /\ pc' = "fetch"
    /\ UNCHANGED <<config, attempt_to_read_cache, store, inventory, loop,
                   fetchCalls, fetchFailed, storeWrites, storeAtStart,
                   readUnassigned>>

\* if not attempt_to_read_cache or cache_needs_update or not results:
\*     results = self.get_repositories()
Fetch ==
    /\ pc = "fetch"
    /\ LET evaluated == EvaluatesNotResults(attempt_to_read_cache, cache_needs_update)
           unbound == evaluated /\ results.t = "unassigned"
           fetch == ~attempt_to_read_cache \/ cache_needs_update \/ NotResults(results)
       IN IF unbound
          THEN /\ readUnassigned' = TRUE
               /\ pc' = "done"
               /\ UNCHANGED <<results, fetchCalls, fetchFailed>>
          ELSE /\ UNCHANGED readUnassigned
               /\ pc' = "update_cache"
               /\ IF fetch
                  THEN \E outcome \in SearchOutcomes :
                         \E r \in IF outcome = "ok" THEN SearchResults ELSE {<<>>} :
                           /\ results' = get_repositories(outcome, r, group_by_languages)
                           /\ fetchCalls' = fetchCalls + 1
                           /\ fetchFailed' = (outcome # "ok")
                  ELSE UNCHANGED <<results, fetchCalls, fetchFailed>>
    /\ UNCHANGED <<config, attempt_to_read_cache, cache_needs_update, store,
                   inventory, loop, storeReads, storeWrites, storeAtStart>>

\* if cache_needs_update: self._cache[cache_key] = results, a failure of
\* the write being logged; then populate(results) is called
UpdateCache ==
    /\ pc = "update_cache"
    /\ IF results.t = "unassigned"
       THEN /\ readUnassigned' = TRUE
            /\ pc' = "done"
            /\ UNCHANGED <<store, storeWrites>>
       ELSE /\ UNCHANGED readUnassigned
            /\ pc' = "populate"
            /\ IF cache_needs_update
               THEN \E written \in BOOLEAN :
                      /\ store' = IF written THEN results ELSE store
                      /\ storeWrites' = storeWrites + 1
               ELSE UNCHANGED <<store, storeWrites>>
    /\ UNCHANGED <<config, attempt_to_read_cache, cache_needs_update, results,
                   inventory, loop, fetchCalls, fetchFailed, storeReads,
                   storeAtStart>>

\* one iteration of "for project in r" inside the try of populate; an
\* exception ends populate
PopulateStep ==
    /\ pc = "populate"
    /\ IF results.t # "list" \/ idx > Len(results.v)
       THEN /\ pc' = "done"
            /\ UNCHANGED <<inventory, idx, groupsOf, errorAt>>
       ELSE LET project == results.v[idx]
            IN IF ProjectRaises(project, group_by_languages)
               THEN /\ errorAt' = idx
                    /\ pc' = "done"
                    /\ UNCHANGED <<inventory, idx, groupsOf>>
               ELSE /\ inventory' = PopulateProject(inventory, project, regex_filter,
                                                    group_by_languages)
                    /\ groupsOf' = Append(groupsOf,
                                          GroupsAdded(project, regex_filter,
                                                      group_by_languages))
                    /\ idx' = idx + 1
                    /\ UNCHANGED <<pc, errorAt>>
    /\ UNCHANGED <<config, attempt_to_read_cache, cache_needs_update, results,
                   store, pass, sinkOnce, ghosts>>

\* populate is called again with the same sequence on the same inventory
PopulateAgain ==
    /\ pc = "done"
    /\ pass = 1
    /\ ~readUnassigned
    /\ sinkOnce' = inventory
    /\ pass' = 2
    /\ idx' = 1
    /\ groupsOf' = <<>>
    /\ errorAt' = 0
    /\ pc' = "populate"
    /\ UNCHANGED <<config, attempt_to_read_cache, cache_needs_update, results,
                   store, inventory, ghosts>>

Next ==
    \/ ParseStart
    \/ ReadCache
    \/ Fetch
    \/ UpdateCache
    \/ PopulateStep
    \/ PopulateAgain

Spec == Init /\ [][Next]_vars

-----------------------------------------------------------------------------
\* Properties.

AfterRead == pc \in {"fetch", "update_cache", "populate", "done"}
AfterFetch == pc \in {"update_cache", "populate", "done"}

\* the groups of the inventory that list host h
GroupsOfHost(h) == {g \in inventory.groups : InList(h, inventory.members[g])}

\* C1: in a run that reads the cache (cache option on, no forced refresh)
\* and finds a repository sequence stored under the key, whatever the
\* sequence (the empty one included), get_repositories is not called.
C1_CacheHitSkipsFetch ==
    (attempt_to_read_cache /\ AfterRead /\ storeAtStart.t = "list")
        => fetchCalls = 0

\* C2: in a run with the cache option on whose get_repositories fails, the
\* store is left as it was, so the store never holds the None of a failed
\* fetch.
C2_FailedFetchLeavesStore ==
    /\ (user_cache_setting /\ fetchFailed) => store = storeAtStart
    /\ store.t # "None"

\* C3 as stated: a repository with a team- topic, with regex_filter empty
\* and group_by_languages false, is added to exactly the one group derived
\* from the team topic, and not to unassigned.
C3_TeamTopicOnly ==
    \A i \in 1..Len(groupsOf) :
        (regex_filter = "" /\ ~group_by_languages /\ HasTeam(results.v[i].topics))
            => groupsOf[i] = {SinkGroup(Team(results.v[i].topics))}

\* C3 amended: such a repository is added to exactly two groups, the one
\* derived from the team topic and unassigned; for a run over that single
\* repository these are the groups of the inventory that list its host.
C3_TeamTopicAndUnassigned ==
    \A i \in 1..Len(groupsOf) :
        (regex_filter = "" /\ ~group_by_languages /\ HasTeam(results.v[i].topics))
            => /\ groupsOf[i] = {SinkGroup(Team(results.v[i].topics)), S_unassigned}
               /\ (pc = "done" /\ Len(results.v) = 1)
                    => GroupsOfHost(HostKey(results.v[i])) = groupsOf[i]

C3_Witness ==
    /\ pc = "done"
    /\ regex_filter = ""
    /\ ~group_by_languages
    /\ Len(groupsOf) = 1
    /\ Len(results.v) = 1
    /\ HasTeam(results.v[1].topics)
    /\ GroupsOfHost(S_svc_42_deploy) =
         {<<"t","e","a","m","_","p","l","a","t","f","o","r","m">>, S_unassigned}

\* C4: for a regex_filter with at least one capture group that matches the
\* name of a processed repository, parse_groupnames returns main-<c>, c the
\* whole first capture of the first match, followed by whole captures only,
\* every capture of every match among them.
C4_RegexGroupsAreCaptures ==
    \A i \in 1..Len(groupsOf) :
        LET project == results.v[i]
            items == Compile(regex_filter).items
            raw == Scan(items, project.name, 1, <<>>)
            got == parse_groupnames(project, regex_filter)
        IN (regex_filter # "" /\ NumGroups(items) >= 1 /\ Len(raw) >= 1)
            => /\ got.t = "list"
               /\ got.v[1] = S_main_prefix \o raw[1].caps[1]
               /\ \A k \in 2..Len(got.v) :
                    \E m \in 1..Len(raw) : \E c \in 1..Len(raw[m].caps) :
                        got.v[k] = raw[m].caps[c]
               /\ \A m \in 1..Len(raw) : \A c \in 1..Len(raw[m].caps) :
                    \E k \in 2..Len(got.v) : got.v[k] = raw[m].caps[c]

\* C5: when the repository at position i raises in populate, every later
\* repository that does not itself raise still gets its host and groups.
C5_LaterProjectsProcessed ==
    (pc = "done" /\ results.t = "list" /\ errorAt # 0)
        => \A j \in (errorAt + 1)..Len(results.v) :
             ~ProjectRaises(results.v[j], group_by_languages)
                => /\ HostKey(results.v[j]) \in inventory.hosts
                   /\ GroupsAdded(results.v[j], regex_filter, group_by_languages)
                        \subseteq GroupsOfHost(HostKey(results.v[j]))

\* C6: after populate has processed a sequence of repositories with
\* pairwise distinct identifiers, the inventory holds one distinct host per
\* repository.
C6_OneHostPerRepository ==
    (pc = "done" /\ results.t = "list" /\ errorAt = 0
        /\ \A i, j \in 1..Len(results.v) : i # j => results.v[i].id # results.v[j].id)
        => Cardinality(inventory.hosts) = Len(results.v)

\* C7: a second call of populate on the same sequence leaves the inventory
\* (groups, the host list of every group, host variables) as the first call
\* left it, and no group ever lists a host twice.
C7_PopulateTwiceSameSink ==
    /\ (pc = "done" /\ pass = 2) => inventory = sinkOnce
    /\ \A g \in inventory.groups :
         \A i, j \in 1..Len(inventory.members[g]) :
            i # j => inventory.members[g][i] # inventory.members[g][j]

C7_Witness ==
    /\ pc = "done"
    /\ pass = 2
    /\ Len(groupsOf) >= 2
    /\ Cardinality(inventory.groups) >= 2
    /\ inventory = sinkOnce

\* C8: in a run with the cache option off the store is neither read nor
\* written and keeps its contents, and get_repositories is called exactly
\* once, whatever the refresh flag and the store.
C8_CacheDisabledNoStoreAccess ==
    ~user_cache_setting
        => /\ storeReads = 0
           /\ storeWrites = 0
           /\ store = storeAtStart
           /\ fetchCalls <= 1
           /\ AfterFetch => fetchCalls = 1

C8_Witness ==
    /\ pc = "done"
    /\ ~user_cache_setting
    /\ ~cache
    /\ store.t = "list"
    /\ Len(store.v) > 0
    /\ fetchCalls = 1

\* C9: with group_by_languages true, a record whose languages is None (no
\* earlier record having raised) still gets its host and its topic/regex
\* groups.
C9_NullLanguagesSkipped ==
    (pc = "done" /\ pass = 1 /\ group_by_languages /\ results.t = "list"
        /\ Len(results.v) >= 1
        /\ "topics" \in DOMAIN results.v[1]
        /\ results.v[1].languages.t = "none")
        => /\ HostKey(results.v[1]) \in inventory.hosts
           /\ LET r == RuleGroups(results.v[1], regex_filter)
              IN {r[i] : i \in 1..Len(r)} \subseteq GroupsOfHost(HostKey(results.v[1]))

\* C10: no path through parse reads the local variable results before it
\* has been assigned.
C10_ResultsAssignedBeforeRead == ~readUnassigned

C10_Witness ==
    /\ pc = "done"
    /\ attempt_to_read_cache
    /\ storeAtStart.t = "missing"
    /\ cache_needs_update
    /\ results.t = "list"
    /\ fetchCalls = 1

====
